---- MODULE Spec2Model ----
(***************************************************************************)
(* The JSON op dispatch layer of core/ops_json.rs: the op constructors     *)
(* op_sync, op_async and op_async_unref, and the boundary closure          *)
(* op_json2raw that validates the promise id, calls the op and files the   *)
(* resulting Op into the runtime state (pending_ops, pending_unref_ops,    *)
(* waker).  The host loop that polls the queues, the argument decoder and  *)
(* the result serializer are collaborators of this file; they are modelled *)
(* from their contracts.                                                   *)
(***************************************************************************)
EXTENDS Integers, Sequences, FiniteSets, TLC

\* Number of script calls through op_json2raw in one session.
MaxCalls == 2
\* Script-supplied integer promise ids range over -1 .. MaxPidArg.
MaxPidArg == 2
\* PromiseId is an unsigned integer type; the cast `as PromiseId` wraps
\* modulo 2^64.  The modulus is scaled down to stay inside TLC's integers.
PromiseIdModulus == 16

VARIABLES
  pending_ops,        \* JsRuntimeState.pending_ops: units that keep the loop alive
  pending_unref_ops,  \* JsRuntimeState.pending_unref_ops: units that do not
  waker,              \* number of waker.wake() signals sent
  op_state,           \* the shared Rc<RefCell<OpState>>: its borrow flag and use
  delivered,          \* completions (promise id, envelope) returned by drain-ready
  loop,               \* host loop: "running" or "exited"
  last,               \* what the most recent op_json2raw call did
  ncalls              \* number of op_json2raw calls made so far

vars == <<pending_ops, pending_unref_ops, waker, op_state, delivered, loop, last, ncalls>>

----------------------------------------------------------------------------
\* Script values

\* The engine values a script can pass as args.get(1).
JsUndefined == [t |-> "undefined", v |-> 0]
JsNull == [t |-> "null", v |-> 0]
JsString == [t |-> "string", v |-> 0]
JsFloat == [t |-> "float", v |-> 0]
JsInt(n) == [t |-> "int", v |-> n]

PromiseArgs ==
  {JsUndefined, JsNull, JsString, JsFloat} \cup {JsInt(n) : n \in -1..MaxPidArg}

\* The argument slots args.get(2), args.get(3): whether each decodes into the
\* type the handler expects.
ArgSlots == {"good", "bad"}

\* What a handler returns: Ok(value), Ok(a value that cannot be encoded), Err(message).
HandlerResults ==
  { [ok |-> TRUE, v |-> "value"],
    [ok |-> TRUE, v |-> "unencodable"],
    [ok |-> FALSE, v |-> "boom"] }

NoResult == [ok |-> FALSE, v |-> "none"]

\* The op a call names: one built by op_sync, op_async or op_async_unref, or a
\* name with no registered handler.
OpNames == {"op_sync", "op_async", "op_async_unref", "unregistered"}

----------------------------------------------------------------------------
\* Collaborators

\* OpPayload::deserialize: decodes slot a, then slot b; the error names the
\* position of the first slot that fails.
Deserialize(a, b) ==
  IF a = "bad" THEN [ok |-> FALSE, pos |-> 1]
  ELSE IF b = "bad" THEN [ok |-> FALSE, pos |-> 2]
  ELSE [ok |-> TRUE, pos |-> 0]

\* serialize_op_result: the envelope of a handler's outcome.  A success payload
\* that cannot be encoded becomes the envelope's error case.
serialize_op_result(result) ==
  IF result.ok
  THEN IF result.v = "unencodable"
       THEN [kind |-> "err", v |-> "encode", pos |-> 0]
       ELSE [kind |-> "ok", v |-> result.v, pos |-> 0]
  ELSE [kind |-> "err", v |-> result.v, pos |-> 0]

\* serialize_op_result(Err(err)) for the decoder's error.
DecodeErrorEnvelope(d) == [kind |-> "err", v |-> "decode", pos |-> d.pos]

NoEnvelope == [kind |-> "unset", v |-> "none", pos |-> 0]

\* OpResult::to_v8: turning an envelope into an engine value fails only on a
\* payload that cannot be encoded.
ToV8(env) == [ok |-> env.v # "unencodable"]

\* serialize_op_result(result, state) is handed the shared state: reading it
\* while an exclusive borrow is held is a conflict.
EnvelopeStateRead(st) == [st EXCEPT !.overlap = st.overlap \/ st.held]

\* RefCell::borrow_mut on the shared state: a second exclusive borrow while
\* one is held is a conflict (BorrowMutError).
BorrowMut(st) ==
  [held |-> TRUE, sections |-> st.sections + 1, overlap |-> st.overlap \/ st.held]

\* Dropping the RefMut guard.
Release(st) == [st EXCEPT !.held = FALSE]

----------------------------------------------------------------------------
\* core/ops_json.rs

\* l.value() as PromiseId
AsPromiseId(v) == v % PromiseIdModulus

\* v8::Local::<v8::Integer>::try_from(arg1): succeeds for integer values only.
IsV8Integer(arg1) == arg1.t = "int"

\* op_json2raw, lines 150-158: null or undefined is 0, an integer is cast,
\* anything else is an error.
PromiseIdOf(arg1) ==
  IF arg1.t \in {"null", "undefined"}
  THEN [ok |-> TRUE, pid |-> 0]
  ELSE IF IsV8Integer(arg1)
       THEN [ok |-> TRUE, pid |-> AsPromiseId(arg1.v)]
       ELSE [ok |-> FALSE, pid |-> 0]

\* A guard that outlives the handler call.
SyncHandlerCall_KeepsGuard(st) == BorrowMut(st)

\* op_sync line 54: op_fn(&mut state.borrow_mut(), a, b): the guard is a
\* temporary, dropped when the call expression ends.
SyncHandlerCall(st) == Release(BorrowMut(st))

\* An asynchronous handler called with its clone of the handle (lines 106,
\* 137): it takes exclusive access around its touch of the shared state and
\* has released it when it returns the future.
AsyncHandlerCall(st) == Release(BorrowMut(st))

\* op_sync that calls the handler whatever the decoder said.
op_sync_NoDecodeCheck(st, pid, a, b, hres) ==
  [tag |-> "Sync", result |-> serialize_op_result(hres), decoded |-> Deserialize(a, b).ok,
   invoked |-> TRUE, st |-> EnvelopeStateRead(SyncHandlerCall(st)), fut_pid |-> 0]

\* op_sync that takes exclusive access before it decodes the arguments.
op_sync_BorrowFirst(st, pid, a, b, hres) ==
  LET d == Deserialize(a, b) IN
  IF d.ok
  THEN [tag |-> "Sync", result |-> serialize_op_result(hres), decoded |-> TRUE,
        invoked |-> TRUE, st |-> EnvelopeStateRead(SyncHandlerCall(st)), fut_pid |-> 0]
  ELSE [tag |-> "Sync", result |-> DecodeErrorEnvelope(d), decoded |-> FALSE,
        invoked |-> FALSE, st |-> EnvelopeStateRead(SyncHandlerCall(st)), fut_pid |-> 0]

\* The closure op_sync builds.
op_sync(st, pid, a, b, hres) ==
  LET d == Deserialize(a, b) IN
  IF d.ok
  THEN [tag |-> "Sync", result |-> serialize_op_result(hres), decoded |-> TRUE,
        invoked |-> TRUE, st |-> EnvelopeStateRead(SyncHandlerCall(st)), fut_pid |-> 0]
  ELSE [tag |-> "Sync", result |-> DecodeErrorEnvelope(d), decoded |-> FALSE,
        invoked |-> FALSE, st |-> EnvelopeStateRead(st), fut_pid |-> 0]

\* op_async without the early return on a decode error.
op_async_NoEarlyReturn(st, pid, a, b, hres) ==
  [tag |-> "Async", result |-> NoEnvelope, decoded |-> Deserialize(a, b).ok,
   invoked |-> TRUE, st |-> st, fut_pid |-> pid]

\* The closure op_async builds: a decode failure is an immediate Op::Sync;
\* otherwise the handler is called to build the future, which is not polled.
op_async(st, pid, a, b, hres) ==
  LET d == Deserialize(a, b) IN
  IF d.ok
  THEN [tag |-> "Async", result |-> NoEnvelope, decoded |-> TRUE,
        invoked |-> TRUE, st |-> AsyncHandlerCall(st), fut_pid |-> pid]
  ELSE [tag |-> "Sync", result |-> DecodeErrorEnvelope(d), decoded |-> FALSE,
        invoked |-> FALSE, st |-> EnvelopeStateRead(st), fut_pid |-> 0]

\* op_async_unref that waits for its handler and returns the result at once.
op_async_unref_Blocks(st, pid, a, b, hres) ==
  LET d == Deserialize(a, b) IN
  IF d.ok
  THEN [tag |-> "Sync", result |-> serialize_op_result([ok |-> TRUE, v |-> "value"]),
        decoded |-> TRUE, invoked |-> TRUE, st |-> AsyncHandlerCall(st), fut_pid |-> 0]
  ELSE [tag |-> "Sync", result |-> DecodeErrorEnvelope(d), decoded |-> FALSE,
        invoked |-> FALSE, st |-> EnvelopeStateRead(st), fut_pid |-> 0]

\* op_async_unref that wraps its future as Op::Async.
op_async_unref_AsAsync(st, pid, a, b, hres) ==
  LET d == Deserialize(a, b) IN
  IF d.ok
  THEN [tag |-> "Async", result |-> NoEnvelope, decoded |-> TRUE,
        invoked |-> TRUE, st |-> AsyncHandlerCall(st), fut_pid |-> pid]
  ELSE [tag |-> "Sync", result |-> DecodeErrorEnvelope(d), decoded |-> FALSE,
        invoked |-> FALSE, st |-> EnvelopeStateRead(st), fut_pid |-> 0]

\* The closure op_async_unref builds.
op_async_unref(st, pid, a, b, hres) ==
  LET d == Deserialize(a, b) IN
  IF d.ok
  THEN [tag |-> "AsyncUnref", result |-> NoEnvelope, decoded |-> TRUE,
        invoked |-> TRUE, st |-> AsyncHandlerCall(st), fut_pid |-> pid]
  ELSE [tag |-> "Sync", result |-> DecodeErrorEnvelope(d), decoded |-> FALSE,
        invoked |-> FALSE, st |-> EnvelopeStateRead(st), fut_pid |-> 0]

\* Op::NotFound: what dispatch yields for a name with no handler; nothing is
\* decoded and no handler runs.
NotFoundOp(st) ==
  [tag |-> "NotFound", result |-> NoEnvelope, decoded |-> FALSE,
   invoked |-> FALSE, st |-> st, fut_pid |-> 0]

\* op_json2raw line 179: let op = op_fn(op_state, payload)
op_fn(name, st, pid, a, b, hres) ==
  CASE name = "op_sync" -> op_sync(st, pid, a, b, hres)
    [] name = "op_async" -> op_async(st, pid, a, b, hres)
    [] name = "op_async_unref" -> op_async_unref(st, pid, a, b, hres)
    [] OTHER -> NotFoundOp(st)

\* The future op_async / op_async_unref box: it yields (pid, envelope) when
\* its handler's work completes.
Future(uid, pid, origin) ==
  [uid |-> uid, pid |-> pid, origin |-> origin, st |-> "pending"]

\* A push that files the unit twice.
PushPending_Twice(q, fut) == Append(Append(q, fut), fut)

\* state.pending_ops.push(fut)
PushPending(q, fut) == Append(q, fut)

\* A push that overwrites the queue.
PushPendingUnref_Overwrite(q, fut) == <<fut>>

\* state.pending_unref_ops.push(fut)
PushPendingUnref(q, fut) == Append(q, fut)

\* state.waker.wake()
Wake(w) == w + 1

\* The queue q holds the unit uid.
InQueue(q, uid) == \E i \in DOMAIN q : q[i].uid = uid

\* The two queues taken for one another.
FileOp_Swapped(op, uid) ==
  CASE op.tag = "Async" ->
         [ops |-> pending_ops,
          unref |-> PushPendingUnref(pending_unref_ops, Future(uid, op.fut_pid, "op_async")),
          waker |-> Wake(waker), queued_at_wake |-> TRUE]
    [] op.tag = "AsyncUnref" ->
         [ops |-> PushPending(pending_ops, Future(uid, op.fut_pid, "op_async_unref")),
          unref |-> pending_unref_ops, waker |-> Wake(waker), queued_at_wake |-> TRUE]
    [] OTHER -> [ops |-> pending_ops, unref |-> pending_unref_ops, waker |-> waker,
                 queued_at_wake |-> FALSE]

\* A wake on every outcome, pending or not.
FileOp_WakesAlways(op, uid) ==
  CASE op.tag = "Async" ->
         LET q == PushPending(pending_ops, Future(uid, op.fut_pid, "op_async")) IN
         [ops |-> q, unref |-> pending_unref_ops, waker |-> Wake(waker),
          queued_at_wake |-> InQueue(q, uid)]
    [] op.tag = "AsyncUnref" ->
         LET q == PushPendingUnref(pending_unref_ops, Future(uid, op.fut_pid, "op_async_unref")) IN
         [ops |-> pending_ops, unref |-> q, waker |-> Wake(waker),
          queued_at_wake |-> InQueue(q, uid)]
    [] OTHER -> [ops |-> pending_ops, unref |-> pending_unref_ops, waker |-> Wake(waker),
                 queued_at_wake |-> FALSE]

\* The Async arm with its two statements in the other order: the waker is
\* signalled while the unit is not in the queue yet.
FileOp_WakeFirst(op, uid) ==
  CASE op.tag = "Async" ->
         LET q == PushPending(pending_ops, Future(uid, op.fut_pid, "op_async")) IN
         [ops |-> q, unref |-> pending_unref_ops, waker |-> Wake(waker),
          queued_at_wake |-> InQueue(pending_ops, uid)]
    [] op.tag = "AsyncUnref" ->
         LET q == PushPendingUnref(pending_unref_ops, Future(uid, op.fut_pid, "op_async_unref")) IN
         [ops |-> pending_ops, unref |-> q, waker |-> Wake(waker),
          queued_at_wake |-> InQueue(q, uid)]
    [] OTHER -> [ops |-> pending_ops, unref |-> pending_unref_ops, waker |-> waker,
                 queued_at_wake |-> FALSE]

\* An Async arm that files the unit in both queues.
FileOp_Both(op, uid) ==
  CASE op.tag = "Async" ->
         LET fut == Future(uid, op.fut_pid, "op_async") IN
         [ops |-> PushPending(pending_ops, fut),
          unref |-> PushPendingUnref(pending_unref_ops, fut), waker |-> Wake(waker),
          queued_at_wake |-> TRUE]
    [] op.tag = "AsyncUnref" ->
         LET q == PushPendingUnref(pending_unref_ops, Future(uid, op.fut_pid, "op_async_unref")) IN
         [ops |-> pending_ops, unref |-> q, waker |-> Wake(waker),
          queued_at_wake |-> InQueue(q, uid)]
    [] OTHER -> [ops |-> pending_ops, unref |-> pending_unref_ops, waker |-> waker,
                 queued_at_wake |-> FALSE]

\* op_json2raw, lines 184-193: which queues and waker result from filing op.
\* Each pending arm pushes (lines 185, 190) and then wakes (lines 187, 192):
\* queued_at_wake records whether the queue held the unit when wake() ran.
FileOp(op, uid) ==
  CASE op.tag = "Async" ->
         LET q == PushPending(pending_ops, Future(uid, op.fut_pid, "op_async")) IN
         [ops |-> q, unref |-> pending_unref_ops, waker |-> Wake(waker),
          queued_at_wake |-> InQueue(q, uid)]
    [] op.tag = "AsyncUnref" ->
         LET q == PushPendingUnref(pending_unref_ops, Future(uid, op.fut_pid, "op_async_unref")) IN
         [ops |-> pending_ops, unref |-> q, waker |-> Wake(waker),
          queued_at_wake |-> InQueue(q, uid)]
    [] OTHER -> [ops |-> pending_ops, unref |-> pending_unref_ops, waker |-> waker,
                 queued_at_wake |-> FALSE]

\* A NotFound arm that throws nothing.
ThrownFor_Silent(op) == "none"

\* What the match on op raises: the type error of the NotFound arm (lines
\* 194-196), or the panic of result.to_v8(scope).unwrap() (line 182).
ThrownFor(op) ==
  IF op.tag = "NotFound" THEN "Unknown op"
  ELSE IF op.tag = "Sync" /\ ~ToV8(op.result).ok THEN "panic"
  ELSE "none"

\* A Sync arm that sets the return value only for a success envelope.
ReturnValueFor_OkOnly(op) ==
  IF op.tag = "Sync" /\ op.result.kind = "ok" THEN op.result ELSE NoEnvelope

\* A Sync arm that never sets the return value.
ReturnValueFor_NeverSet(op) == NoEnvelope

\* The return value set by the match on op, lines 181-183.
ReturnValueFor(op) ==
  IF op.tag = "Sync" /\ ToV8(op.result).ok THEN op.result ELSE NoEnvelope

NoCall ==
  [name |-> "none", arg1 |-> JsUndefined, a |-> "good", b |-> "good", pid |-> 0,
   tag |-> "none", decoded |-> FALSE, invoked |-> FALSE, result |-> NoResult,
   rv |-> NoEnvelope, thrown |-> "none", queued_at_wake |-> FALSE]

\* One script call through the closure op_json2raw builds.
op_json2raw(name, arg1, a, b, hres) ==
  /\ loop = "running"
  /\ ncalls < MaxCalls
  /\ ncalls' = ncalls + 1
  /\ UNCHANGED <<delivered, loop>>
  /\ LET p == PromiseIdOf(arg1) IN
     IF ~p.ok
     THEN /\ last' = [name |-> name, arg1 |-> arg1, a |-> a, b |-> b, pid |-> 0,
                      tag |-> "none", decoded |-> FALSE, invoked |-> FALSE,
                      result |-> NoResult, rv |-> NoEnvelope,
                      thrown |-> "invalid promise id", queued_at_wake |-> FALSE]
          /\ UNCHANGED <<pending_ops, pending_unref_ops, waker, op_state>>
     ELSE LET op == op_fn(name, op_state, p.pid, a, b, hres)
              filed == FileOp(op, ncalls + 1)
          IN /\ last' = [name |-> name, arg1 |-> arg1, a |-> a, b |-> b, pid |-> p.pid,
                         tag |-> op.tag, decoded |-> op.decoded, invoked |-> op.invoked,
                         result |-> IF op.invoked THEN hres ELSE NoResult,
                         rv |-> ReturnValueFor(op), thrown |-> ThrownFor(op),
                         queued_at_wake |-> filed.queued_at_wake]
             /\ op_state' = op.st
             /\ pending_ops' = filed.ops
             /\ pending_unref_ops' = filed.unref
             /\ waker' = filed.waker

\* The handler's result matters at the call only for a synchronous op; an
\* asynchronous unit's result is chosen when its work completes.
ResultsAtCall(name) == IF name = "op_sync" THEN HandlerResults ELSE {NoResult}

Call ==
  \E name \in OpNames, arg1 \in PromiseArgs, a \in ArgSlots, b \in ArgSlots :
    \E hres \in ResultsAtCall(name) :
      op_json2raw(name, arg1, a, b, hres)

----------------------------------------------------------------------------
\* The host loop and the units' own progress

Units(q) == {q[i] : i \in 1..Len(q)}

\* The work a pending unit awaits finishes: the unit's next poll will run
\* its handler to the end.
IoComplete ==
  /\ loop = "running"
  /\ \/ \E i \in 1..Len(pending_ops) :
          /\ pending_ops[i].st = "pending"
          /\ pending_ops' = [pending_ops EXCEPT ![i].st = "ready"]
          /\ UNCHANGED pending_unref_ops
     \/ \E i \in 1..Len(pending_unref_ops) :
          /\ pending_unref_ops[i].st = "pending"
          /\ pending_unref_ops' = [pending_unref_ops EXCEPT ![i].st = "ready"]
          /\ UNCHANGED pending_ops
  /\ UNCHANGED <<waker, op_state, delivered, loop, last, ncalls>>

\* A poll that stops at the first unit that is not ready.
RECURSIVE Ready_HeadOfLine(_)
Ready_HeadOfLine(q) ==
  IF q = <<>> THEN <<>>
  ELSE IF Head(q).st = "ready" THEN <<Head(q)>> \o Ready_HeadOfLine(Tail(q)) ELSE <<>>

\* The units of q that have completed, in queue order.
RECURSIVE Ready(_)
Ready(q) ==
  IF q = <<>> THEN <<>>
  ELSE IF Head(q).st = "ready" THEN <<Head(q)>> \o Ready(Tail(q)) ELSE Ready(Tail(q))

\* The units of q that have not completed, in queue order.
RECURSIVE StillPending(_)
StillPending(q) ==
  IF q = <<>> THEN <<>>
  ELSE IF Head(q).st = "ready" THEN StillPending(Tail(q))
       ELSE <<Head(q)>> \o StillPending(Tail(q))

\* A completion that loses the promise id captured by the closure.
Completion_DropsId(u, result) ==
  [uid |-> u.uid, pid |-> 0, result |-> result, env |-> serialize_op_result(result)]

\* The pair a unit yields: .map(move |result| (pid, serialize_op_result(result, state)))
Completion(u, result) ==
  [uid |-> u.uid, pid |-> u.pid, result |-> result, env |-> serialize_op_result(result)]

\* The completions of the units of q, unit i's handler ending with rs[i].
Completions(q, rs) == [i \in 1..Len(q) |-> Completion(q[i], rs[i])]

\* A unit's last touch of the shared state when it is polled to completion:
\* exclusive access taken and released around the touch.
RECURSIVE TouchAll(_, _)
TouchAll(st, n) == IF n = 0 THEN st ELSE TouchAll(Release(BorrowMut(st)), n - 1)

\* drain-ready: polls both queues, removes and returns the completed units,
\* leaves the others in place.
DrainReady ==
  /\ loop = "running"
  /\ LET done == Ready(pending_ops) \o Ready(pending_unref_ops) IN
     /\ \E rs \in [1..Len(done) -> HandlerResults] :
          delivered' = delivered \o Completions(done, rs)
     /\ op_state' = EnvelopeStateRead(TouchAll(op_state, Len(done)))
  /\ pending_ops' = StillPending(pending_ops)
  /\ pending_unref_ops' = StillPending(pending_unref_ops)
  /\ UNCHANGED <<waker, loop, last, ncalls>>

\* The host loop may consider itself idle only when the kept-alive queue is empty.
Idle == pending_ops = <<>>

LoopExit ==
  /\ loop = "running"
  /\ Idle
  /\ loop' = "exited"
  /\ UNCHANGED <<pending_ops, pending_unref_ops, waker, op_state, delivered, last, ncalls>>

Init ==
  /\ pending_ops = <<>>
  /\ pending_unref_ops = <<>>
  /\ waker = 0
  /\ op_state = [held |-> FALSE, sections |-> 0, overlap |-> FALSE]
  /\ delivered = <<>>
  /\ loop = "running"
  /\ last = NoCall
  /\ ncalls = 0

Next == Call \/ IoComplete \/ DrainReady \/ LoopExit

Spec == Init /\ [][Next]_vars

\* The host loop polls again whenever a queued unit is ready: the enqueue
\* signals the waker, and a unit whose work finished wakes the loop.
FairSpec == Spec /\ WF_vars(DrainReady)

----------------------------------------------------------------------------
\* Vocabulary of the properties

AsyncNames == {"op_async", "op_async_unref"}

Queued == Units(pending_ops) \cup Units(pending_unref_ops)

QueuedUids == {u.uid : u \in Queued}

DeliveredUids == {delivered[i].uid : i \in DOMAIN delivered}

\* This step is a script call through op_json2raw.
CallStep == ncalls' = ncalls + 1

QueuesUntouched ==
  /\ pending_ops' = pending_ops
  /\ pending_unref_ops' = pending_unref_ops
  /\ waker' = waker

\* The completions this step appends to delivered.
NewCompletions == {delivered'[i] : i \in (Len(delivered) + 1)..Len(delivered')}

\* The units this step appends to a queue.
NewUnits ==
  {u \in Units(pending_ops') \cup Units(pending_unref_ops') : u.uid \notin QueuedUids}

\* The call that last' describes went through op_async or op_async_unref
\* with a valid promise id and argument slots that do not decode.
AsyncDecodeFailure(c) ==
  /\ c.name \in AsyncNames
  /\ c.thrown = "none"
  /\ ~Deserialize(c.a, c.b).ok

ImmediateFailure(c) ==
  /\ ~c.invoked
  /\ c.tag = "Sync"
  /\ c.rv.kind = "err"
  /\ c.rv.v = "decode"

----------------------------------------------------------------------------
\* C1

\* C1 as stated: an asynchronous dispatch whose argument slots fail to decode
\* does not invoke the handler, yields an immediate failure envelope, appends
\* nothing, does not signal the waker, and no completion bearing that call's
\* promise id is delivered afterwards (the last part taken for the calls
\* that supply a positive integer as promise id).
C1_Original ==
  [][ /\ (CallStep /\ AsyncDecodeFailure(last')) =>
           (ImmediateFailure(last') /\ QueuesUntouched)
      /\ (AsyncDecodeFailure(last) /\ last.arg1.t = "int" /\ last.arg1.v > 0) =>
           \A c \in NewCompletions : c.pid # last.pid ]_vars

\* C1 amended: an asynchronous dispatch whose argument slots fail to decode
\* does not invoke the handler, yields an immediate failure envelope, appends
\* nothing, does not signal the waker and delivers nothing; the call creates
\* no unit, because every unit that enters a queue is created by the call
\* being made, with arguments that decoded, and every completion delivered
\* is that of a unit that was queued.
C1_Amended ==
  [][ /\ (CallStep /\ AsyncDecodeFailure(last')) =>
           (ImmediateFailure(last') /\ QueuesUntouched /\ delivered' = delivered)
      /\ \A u \in NewUnits :
           /\ CallStep
           /\ Deserialize(last'.a, last'.b).ok
           /\ u.uid = ncalls'
           /\ u.pid = last'.pid
      /\ \A c \in NewCompletions :
           \E u \in Queued : u.uid = c.uid /\ u.pid = c.pid ]_vars

\* An asynchronous call failed to decode, and a completion with the promise
\* id it supplied, from another call's unit, has been delivered.
C1_Witness ==
  /\ AsyncDecodeFailure(last)
  /\ ImmediateFailure(last)
  /\ \E i \in DOMAIN delivered :
       delivered[i].pid = last.pid /\ delivered[i].uid # ncalls

----------------------------------------------------------------------------
\* C2

\* No unit has two completions among those delivered.
NoDuplicateCompletions ==
  \A i, j \in DOMAIN delivered : i # j => delivered[i].uid # delivered[j].uid

\* The unit created by call n is queued and its work has finished.
ReadyUid(n) == \E u \in Queued : u.uid = n /\ u.st = "ready"

\* C2 as stated, at the end of the session: once the host loop has exited,
\* and drain-ready is called no more, every enqueued unit has had exactly one
\* completion delivered.
C2_Original == loop = "exited" => (Queued = {} /\ NoDuplicateCompletions)

\* C2 amended: no enqueued unit ever has more than one completion delivered,
\* and none is both queued and delivered; a unit whose work has finished has
\* its one completion delivered by drain-ready, unless the host loop exits
\* first (which it can only while no kept-alive unit is queued).  A unit
\* whose work never finishes has none.
C2_Amended ==
  /\ [](NoDuplicateCompletions /\ QueuedUids \cap DeliveredUids = {})
  /\ \A n \in 1..MaxCalls :
       ReadyUid(n) ~> (n \in DeliveredUids \/ loop = "exited")

\* The loop has exited after delivering one unit's completion, with a
\* not-kept-alive unit still queued.
C2_Witness ==
  /\ loop = "exited"
  /\ delivered # <<>>
  /\ pending_unref_ops # <<>>

----------------------------------------------------------------------------
\* C3

\* C3 as stated: no two completions delivered carry the same promise id
\* (taken for the positive integers a script supplies as ids).
C3_Original ==
  \A i, j \in DOMAIN delivered :
    (i # j /\ delivered[i].pid \in 1..MaxPidArg) => delivered[i].pid # delivered[j].pid

----------------------------------------------------------------------------
\* C4

\* A unit created by op_async is queued.
KeptAliveQueued == \E u \in Queued : u.origin = "op_async"

\* C4: the host loop is idle, and may exit, exactly when no unit created by
\* op_async is queued: such a unit blocks the exit, a unit created by
\* op_async_unref never does (it is never in pending_ops), and a loop that
\* has exited left no kept-alive unit behind.
C4_IdleOnlyWhenKeptAliveEmpty ==
  /\ Idle <=> ~KeptAliveQueued
  /\ \A u \in Units(pending_unref_ops) : u.origin = "op_async_unref"
  /\ loop = "exited" => (pending_ops = <<>> /\ ~KeptAliveQueued)

\* The loop has exited while a unit created by op_async_unref is still pending.
C4_Witness ==
  /\ loop = "exited"
  /\ \E u \in Units(pending_unref_ops) : u.st = "pending" /\ u.origin = "op_async_unref"

----------------------------------------------------------------------------
\* C5

\* The promise-id argument is absent, none, or a non-negative integer.
ValidPromiseArg(arg) ==
  \/ arg.t \in {"undefined", "null"}
  \/ arg.t = "int" /\ arg.v >= 0

ProtocolAbort(c) ==
  /\ ~c.invoked
  /\ c.tag = "none"
  /\ c.rv = NoEnvelope

\* C5 as stated: a call whose promise-id argument is neither absent, none,
\* nor a non-negative integer throws the invalid-promise-id type error; no
\* dispatcher or handler runs, no return value is set, the queues and the
\* waker are untouched.
C5_Original ==
  [][ (CallStep /\ ~ValidPromiseArg(last'.arg1)) =>
        (last'.thrown = "invalid promise id" /\ ProtocolAbort(last') /\ QueuesUntouched)
    ]_vars

----------------------------------------------------------------------------
\* C6

\* C6 as stated: every queued unit carries a non-zero promise id.
C6_Original == \A u \in Queued : u.pid # 0

----------------------------------------------------------------------------
\* C7

\* C7: no exclusive borrow of the shared state was ever taken while another
\* was held, and between the steps of the session, where a dispatch can
\* arrive and where asynchronous units are suspended, the handle is not held.
C7_NoOverlap == ~op_state.overlap /\ ~op_state.held

\* A synchronous handler ran while an asynchronous unit that has already
\* touched the shared state is suspended.
C7_Witness ==
  /\ last.name = "op_sync"
  /\ last.invoked
  /\ op_state.sections >= 2
  /\ \E u \in Queued : u.st = "pending"

----------------------------------------------------------------------------
\* C8

QueuedUidsNext == {u.uid : u \in Units(pending_ops') \cup Units(pending_unref_ops')}

UidsOf(q) == {u.uid : u \in Units(q)}

\* The step keeps unit u where it is.
StaysQueued(u) ==
  /\ u.uid \in UidsOf(pending_ops) => u.uid \in UidsOf(pending_ops')
  /\ u.uid \in UidsOf(pending_unref_ops) => u.uid \in UidsOf(pending_unref_ops')

\* The step removes unit u from its queue and returns its completion, once.
ReturnedOnce(u) ==
  /\ u.uid \notin QueuedUidsNext
  /\ Cardinality({i \in DOMAIN delivered' : delivered'[i].uid = u.uid}) = 1
  /\ \E c \in NewCompletions : c.uid = u.uid /\ c.pid = u.pid

\* C8: in every step each queued unit either stays in its queue or, having
\* completed, is removed and returned exactly once; an incomplete unit
\* always stays; a step that returns any unit returns every completed one;
\* what was returned stays returned, and no unit is ever both queued and
\* returned.
C8_DrainLosesNothing ==
  [][ /\ \A u \in Queued :
           \/ StaysQueued(u) /\ u.uid \in QueuedUidsNext
           \/ u.st = "ready" /\ ReturnedOnce(u)
      /\ NewCompletions # {} =>
           \A u \in Queued : u.st = "ready" => ReturnedOnce(u)
      /\ Len(delivered') >= Len(delivered)
      /\ \A i \in DOMAIN delivered : delivered'[i] = delivered[i]
      /\ \A i \in DOMAIN delivered' : delivered'[i].uid \notin QueuedUidsNext ]_vars

\* One unit has been returned by an earlier drain-ready and another one,
\* completed since, waits for the next.
C8_Witness ==
  /\ delivered # <<>>
  /\ \E u \in Queued : u.st = "ready"

----------------------------------------------------------------------------
\* C9

\* A drain-ready step that reports unit n and leaves every incomplete unit queued.
C9_Reports(n) ==
  /\ DrainReady
  /\ \E i \in DOMAIN delivered' : delivered'[i].uid = n
  /\ \A u \in Queued : u.st = "pending" => u.uid \in QueuedUidsNext

\* C9: while the loop runs, drain-ready can report every completed unit at
\* once, whatever units enqueued before it are still pending.
C9_CompletionOrder ==
  \A u \in Queued : (loop = "running" /\ u.st = "ready") => ENABLED C9_Reports(u.uid)

\* The later-enqueued unit has been reported while the earlier-enqueued one,
\* with another promise id, is still pending in pending_ops.
C9_Witness ==
  \E i \in DOMAIN delivered, u \in Units(pending_ops) :
    /\ u.st = "pending"
    /\ u.uid < delivered[i].uid
    /\ u.pid # delivered[i].pid

----------------------------------------------------------------------------
\* C10

NothingDispatched(c) ==
  /\ ~c.decoded
  /\ ~c.invoked
  /\ c.rv = NoEnvelope

----------------------------------------------------------------------------
\* C11

\* The promise-id argument is one op_json2raw accepts.
AcceptedPromiseArg(arg) == arg.t \in {"undefined", "null", "int"}

\* C11: a unit carries the promise id of the call that created it from the
\* push to its completion, and the one completion of a unit whose handler
\* failed with an error is (that promise id, failure envelope with the
\* error's message).
C11_AsyncErrorCompletion ==
  [][ /\ \A u \in NewUnits :
           u.uid = ncalls' /\ u.pid = last'.pid /\ last'.invoked
      /\ \A u \in Queued :
           \A w \in Units(pending_ops') \cup Units(pending_unref_ops') :
             w.uid = u.uid => w.pid = u.pid
      /\ \A c \in NewCompletions :
           /\ \E u \in Queued : u.uid = c.uid /\ u.pid = c.pid
           /\ Cardinality({i \in DOMAIN delivered' : delivered'[i].uid = c.uid}) = 1
           /\ ~c.result.ok =>
                (c.env.kind = "err" /\ c.env.v = c.result.v) ]_vars

\* The unit of a call that supplied promise id 2 has completed with the
\* failure envelope of its handler's error.
C11_Witness ==
  \E i \in DOMAIN delivered :
    /\ delivered[i].pid = 2
    /\ ~delivered[i].result.ok
    /\ delivered[i].env = [kind |-> "err", v |-> "boom", pos |-> 0]

----------------------------------------------------------------------------
\* C12

\* The position of the first argument slot that does not decode.
FirstBadSlot(c) == IF c.a = "bad" THEN 1 ELSE 2

\* C12: a synchronous dispatch whose argument slots do not decode does not
\* invoke the handler and takes no exclusive access to the shared state; its
\* outcome is an immediate failure envelope naming the failing position, set
\* as the call's return value, and nothing is thrown.
C12_SyncDecodeFailure ==
  [][ (/\ CallStep
       /\ last'.name = "op_sync"
       /\ AcceptedPromiseArg(last'.arg1)
       /\ (last'.a = "bad" \/ last'.b = "bad")) =>
        /\ ~last'.invoked
        /\ op_state' = op_state
        /\ last'.tag = "Sync"
        /\ last'.rv = [kind |-> "err", v |-> "decode", pos |-> FirstBadSlot(last')]
        /\ last'.thrown = "none"
        /\ QueuesUntouched ]_vars

\* A synchronous call whose second slot does not decode returned the decode
\* error for position 2; the shared state was never borrowed.
C12_Witness ==
  /\ last.name = "op_sync"
  /\ last.a = "good"
  /\ last.b = "bad"
  /\ last.rv.kind = "err"
  /\ last.rv.pos = 2
  /\ op_state.sections = 0

----------------------------------------------------------------------------
\* C13

\* A handler's success whose payload cannot be encoded.
UnencodableSuccess == [ok |-> TRUE, v |-> "unencodable"]

EncodeErrorEnvelope == [kind |-> "err", v |-> "encode", pos |-> 0]

----------------------------------------------------------------------------
\* C14

\* C14: a call never ends the session or panics; it throws the
\* invalid-promise-id error exactly when its promise-id argument is not
\* accepted and the unknown-op error exactly when the argument is accepted
\* and the name is unregistered; a call that throws leaves the queues, the
\* waker, the shared state and the delivered completions as they were, so
\* what follows it starts from the state the session had before it.
C14_ProtocolErrorFrame ==
  [][ CallStep =>
        /\ loop' = "running"
        /\ last'.thrown \in {"none", "invalid promise id", "Unknown op"}
        /\ last'.thrown = "invalid promise id" <=> ~AcceptedPromiseArg(last'.arg1)
        /\ last'.thrown = "Unknown op" <=>
             (AcceptedPromiseArg(last'.arg1) /\ last'.name = "unregistered")
        /\ last'.thrown # "none" =>
             (QueuesUntouched /\ op_state' = op_state /\ delivered' = delivered) ]_vars

\* The second call threw the unknown-op error; the unit the first call
\* enqueued is still pending and the waker count is still one.
C14_Witness ==
  /\ ncalls = 2
  /\ last.thrown = "Unknown op"
  /\ waker = 1
  /\ \E u \in Queued : u.uid = 1 /\ u.st = "pending"

----------------------------------------------------------------------------
\* C15

SyncSuccess(c) ==
  /\ c.name = "op_sync"
  /\ AcceptedPromiseArg(c.arg1)
  /\ c.a = "good"
  /\ c.b = "good"
  /\ c.result.ok

----------------------------------------------------------------------------
\* C16

PendingTags == {"Async", "AsyncUnref"}

\* C16: the waker is signalled only by a call that enqueues exactly one
\* unit, once, and at the moment it is signalled the unit is already in its
\* queue; a call that enqueues a unit, and every call whose op is pending,
\* signals the waker before it returns.
C16_EnqueueThenWake ==
  [][ /\ waker' # waker =>
           /\ CallStep
           /\ waker' = waker + 1
           /\ Cardinality(NewUnits) = 1
           /\ last'.queued_at_wake
      /\ (CallStep /\ last'.tag \in PendingTags) => NewUnits # {}
      /\ NewUnits # {} =>
           /\ CallStep
           /\ waker' = waker + 1
           /\ \A u \in NewUnits : u.uid = ncalls' ]_vars

\* Two calls have each enqueued a unit, one per queue, and each signalled
\* the waker with its unit in place.
C16_Witness ==
  /\ waker = 2
  /\ Len(pending_ops) = 1
  /\ Len(pending_unref_ops) = 1
  /\ last.tag \in PendingTags
  /\ last.queued_at_wake

----------------------------------------------------------------------------
\* C17

\* The call that c describes got as far as the handler.
ReachesHandler(c) ==
  /\ AcceptedPromiseArg(c.arg1)
  /\ c.a = "good"
  /\ c.b = "good"

\* C17: a synchronous dispatch takes exclusive access to the shared state
\* exactly when its arguments decoded, once, for the handler call; the
\* access is released when the result is wrapped, so that the wrapping's own
\* read of the state meets no held access, whether the handler succeeded or
\* failed; when the dispatch has returned the state is not exclusively held.
C17_SyncBorrowScope ==
  [][ (CallStep /\ last'.name = "op_sync") =>
        /\ last'.invoked <=> ReachesHandler(last')
        /\ last'.invoked => last'.decoded
        /\ op_state'.sections = op_state.sections + (IF last'.invoked THEN 1 ELSE 0)
        /\ ~op_state'.held
        /\ ~op_state'.overlap ]_vars

\* A synchronous call whose handler failed has returned after one whose
\* arguments did not decode; access was taken once and is not held.
C17_Witness ==
  /\ ncalls = 2
  /\ last.name = "op_sync"
  /\ last.result = [ok |-> FALSE, v |-> "boom"]
  /\ last.rv.kind = "err"
  /\ op_state = [held |-> FALSE, sections |-> 1, overlap |-> FALSE]

----------------------------------------------------------------------------
\* C18

\* C18: when an asynchronous dispatch with decodable arguments returns, its
\* unit is in a queue and has not completed, no return value is set, nothing
\* is thrown and no completion has been delivered by the call; completions
\* are delivered only by steps that are not calls, for units that were
\* queued and had completed before the step.
C18_AsyncDoesNotObserveCompletion ==
  [][ /\ (CallStep /\ last'.name \in AsyncNames /\ ReachesHandler(last')) =>
           /\ \E u \in NewUnits : u.uid = ncalls' /\ u.st = "pending"
           /\ last'.rv = NoEnvelope
           /\ last'.thrown = "none"
           /\ delivered' = delivered
      /\ delivered' # delivered =>
           /\ ~CallStep
           /\ \A c \in NewCompletions :
                \E u \in Queued : u.uid = c.uid /\ u.st = "ready" ]_vars

\* An op_async_unref call has returned: its unit is pending in its queue and
\* nothing has been delivered.
C18_Witness ==
  /\ last.name = "op_async_unref"
  /\ last.tag = "AsyncUnref"
  /\ last.rv = NoEnvelope
  /\ \E u \in Units(pending_unref_ops) : u.uid = ncalls /\ u.st = "pending"
  /\ delivered = <<>>

----------------------------------------------------------------------------
\* C19

\* op_async's op with the tag of the kept-alive queue exchanged for the
\* other's.
AsUnref(op) == [op EXCEPT !.tag = IF @ = "Async" THEN "AsyncUnref" ELSE @]

\* C19: on the input of any call op_async and op_async_unref build the same
\* op up to the queue it names; a call to op_async appends only to pending_ops and
\* a call to op_async_unref only to pending_unref_ops; a queue holds only
\* units of its own variant; no unit is in both queues and none moves from
\* one to the other.
C19_VariantsDifferOnlyInQueue ==
  [][ /\ CallStep =>
           AsUnref(op_async(op_state, last'.pid, last'.a, last'.b, NoResult))
             = op_async_unref(op_state, last'.pid, last'.a, last'.b, NoResult)
      /\ (CallStep /\ last'.name = "op_async") =>
           (pending_unref_ops' = pending_unref_ops /\ \A u \in NewUnits : InQueue(pending_ops', u.uid))
      /\ (CallStep /\ last'.name = "op_async_unref") =>
           (pending_ops' = pending_ops /\ \A u \in NewUnits : InQueue(pending_unref_ops', u.uid))
      /\ \A u \in Units(pending_ops') : u.origin = "op_async"
      /\ \A u \in Units(pending_unref_ops') : u.origin = "op_async_unref"
      /\ UidsOf(pending_ops') \cap UidsOf(pending_unref_ops') = {}
      /\ UidsOf(pending_ops) \cap UidsOf(pending_unref_ops') = {}
      /\ UidsOf(pending_unref_ops) \cap UidsOf(pending_ops') = {} ]_vars

\* One unit of each variant is queued, each in its own queue, the
\* op_async_unref one filed last.
C19_Witness ==
  /\ last.name = "op_async_unref"
  /\ UidsOf(pending_ops) = {1}
  /\ UidsOf(pending_unref_ops) = {2}
  /\ pending_ops[1].origin = "op_async"
  /\ pending_unref_ops[1].origin = "op_async_unref"

----------------------------------------------------------------------------
\* C20

\* The four effects of a call, on the step that makes it.
EffectImmediate ==
  /\ last'.rv # NoEnvelope
  /\ last'.thrown = "none"
  /\ QueuesUntouched

EffectKeptAlive ==
  /\ Len(pending_ops') = Len(pending_ops) + 1
  /\ SubSeq(pending_ops', 1, Len(pending_ops)) = pending_ops
  /\ pending_unref_ops' = pending_unref_ops
  /\ waker' = waker + 1
  /\ last'.rv = NoEnvelope
  /\ last'.thrown = "none"

EffectNotKeptAlive ==
  /\ Len(pending_unref_ops') = Len(pending_unref_ops) + 1
  /\ SubSeq(pending_unref_ops', 1, Len(pending_unref_ops)) = pending_unref_ops
  /\ pending_ops' = pending_ops
  /\ waker' = waker + 1
  /\ last'.rv = NoEnvelope
  /\ last'.thrown = "none"

EffectThrow ==
  /\ last'.thrown # "none"
  /\ last'.rv = NoEnvelope
  /\ QueuesUntouched

EffectCount ==
  (IF EffectImmediate THEN 1 ELSE 0) + (IF EffectKeptAlive THEN 1 ELSE 0)
    + (IF EffectNotKeptAlive THEN 1 ELSE 0) + (IF EffectThrow THEN 1 ELSE 0)

\* C20: a call has exactly one of the four effects; it adds at most one
\* unit to the two queues together; a call to a synchronous op with an
\* accepted promise id, and a call to a registered op whose arguments do not
\* decode, is immediate; an immediate call leaves the queues and the waker
\* alone and no queued unit carries its identity.
C20_OneOfFourEffects ==
  [][ CallStep =>
        /\ EffectCount = 1
        /\ Len(pending_ops') + Len(pending_unref_ops')
             <= Len(pending_ops) + Len(pending_unref_ops) + 1
        /\ (AcceptedPromiseArg(last'.arg1) /\ last'.name = "op_sync") => last'.tag = "Sync"
        /\ (AcceptedPromiseArg(last'.arg1) /\ last'.name # "unregistered"
              /\ (last'.a = "bad" \/ last'.b = "bad")) => last'.tag = "Sync"
        /\ last'.tag = "Sync" =>
             /\ EffectImmediate
             /\ ncalls' \notin QueuedUidsNext ]_vars

\* A synchronous call made with promise id 2 returned its value; no unit is
\* queued under that or any id.
C20_Witness ==
  /\ last.name = "op_sync"
  /\ last.pid = 2
  /\ last.rv.kind = "ok"
  /\ Queued = {}
  /\ waker = 0

====
